---- MODULE Spec2Model ----
(***************************************************************************)
(* Label-analysis backend (src/main.py): module import builds the two      *)
(* client handles, then POST / runs, per request, upload read -> Cloud     *)
(* Vision annotate_image -> OpenAI chat completion -> JSON response.       *)
(*                                                                         *)
(* Python strings are sequences of tokens; a token is one character of a   *)
(* small alphabet or a whole literal of the source.  None is a value that  *)
(* is no string of any alphabet.  Objects and dicts are functions from     *)
(* attribute / key names to values, so hasattr and dict.get are tests on   *)
(* the domain.                                                             *)
(***************************************************************************)
EXTENDS Integers, Sequences, FiniteSets, TLC

\* ---------------------------------------------------------------- bounds
NumRequests == 2      \* requests submitted to the one event loop
MaxStrLen == 2        \* longest string the collaborators return
MaxLabels == 6        \* most label annotations the OCR collaborator returns

\* ------------------------------------------------------- program constants
LabelCap == 5         \* [:5]
ScoreDigits == 2      \* round(..., 2)

Requests == 1..NumRequests

\* ---------------------------------------------------------------- values
None == <<"None">>
SP == " "
EmptyStr == <<>>

Strings(alphabet, n) == UNION {[1..k -> alphabet] : k \in 0..n}

\* bool(x) of a string-or-None value
Truthy(x) == x # None /\ x # EmptyStr

RECURSIVE lstrip(_)
lstrip(s) == IF s # <<>> /\ Head(s) = SP THEN lstrip(Tail(s)) ELSE s

RECURSIVE rstrip(_)
rstrip(s) == IF s # <<>> /\ s[Len(s)] = SP THEN rstrip(SubSeq(s, 1, Len(s) - 1)) ELSE s

\* str.strip()
strip(s) == rstrip(lstrip(s))

\* an object / dict holding exactly the attributes `fields` of `vals`
Obj(fields, vals) == [k \in fields |-> vals[k]]
NoAttrs == Obj({}, <<>>)

hasattr(o, k) == k \in DOMAIN o
\* getattr(o, k, default) and dict.get(k, default)
get(o, k, default) == IF k \in DOMAIN o THEN o[k] ELSE default

\* -------------------------------------------- literals of the source text
NoTextDetected == <<"No text detected.">>
NotConfiguredMsg == <<"LLM Analysis failed: OPENAI_API_KEY not configured on the server.">>
CouldNotGenerateMsg == <<"LLM could not generate an analysis. Please upload a clearer or more detailed food label.">>
ApiErrorMsg(e) == <<"LLM Analysis failed due to API error: ", e>>
VisionFailedDetail(e) == <<"Cloud Vision API call failed: ", e>>
ReadFailedDetail(e) == <<"Could not read uploaded image: ", e>>
NotInitializedDetail == <<"Vision client not initialized.">>

\* messages of the exceptions Python itself raises on the paths below
NoneTypeChat == "'NoneType' object has no attribute 'chat'"
IndexOutOfRange == "list index out of range"

\* ============================================================ Vision Caller
\* MessageToDict(response._pb): a field at its default value (empty string,
\* 0.0, empty repeated field) has no key in the dict.
EntityToDict(a) ==
    Obj({k \in {"description"} : a.description # EmptyStr}
            \cup {k \in {"score"} : a.score # 0}, a)

MessageToDict(pb) ==
    Obj({k \in {"textAnnotations", "labelAnnotations"} : pb[k] # <<>>},
        [textAnnotations |-> [i \in 1..Len(pb.textAnnotations) |->
                                  EntityToDict(pb.textAnnotations[i])],
         labelAnnotations |-> [i \in 1..Len(pb.labelAnnotations) |->
                                  EntityToDict(pb.labelAnnotations[i])]])

\* round(float(score), 2); scores are held in thousandths, the result in
\* units of 10^-ScoreDigits, ties to the even neighbour.
round(p) ==
    LET unit == 10 ^ (3 - ScoreDigits)
        q == p \div unit
        r == p % unit
    IN  IF 2 * r > unit \/ (2 * r = unit /\ q % 2 = 1) THEN q + 1 ELSE q

\* f"{label.get('description')} (Score: {round(float(label.get('score', 0)), 2)})"
FormatLabel(label) ==
    <<get(label, "description", None), " (Score: ", round(get(label, "score", 0)), ")">>

\* vision_results.get("textAnnotations", [{}])[0] raises IndexError on an
\* empty list
NormaliseRaises(vision_results) ==
    get(vision_results, "textAnnotations", <<NoAttrs>>) = <<>>

\* the text taken without .strip()
detected_text_unstripped(vision_results) ==
    LET first == get(vision_results, "textAnnotations", <<NoAttrs>>)[1]
        text == get(first, "description", EmptyStr)
    IN  IF Truthy(text) THEN text ELSE NoTextDetected

detected_text(vision_results) ==
    LET first == get(vision_results, "textAnnotations", <<NoAttrs>>)[1]
        text == strip(get(first, "description", EmptyStr))
    IN  IF Truthy(text) THEN text ELSE NoTextDetected

Min(a, b) == IF a <= b THEN a ELSE b

\* the slice taken from the end, [-5:]
labels_last_five(vision_results) ==
    LET anns == get(vision_results, "labelAnnotations", <<>>)
        n == Min(LabelCap, Len(anns))
    IN  [i \in 1..n |-> FormatLabel(anns[Len(anns) - n + i])]

labels(vision_results) ==
    LET anns == get(vision_results, "labelAnnotations", <<>>)
    IN  [i \in 1..Min(LabelCap, Len(anns)) |-> FormatLabel(anns[i])]

\* lines 89-97: the dict returned to the endpoint
Normalise(pb) ==
    LET vision_results == MessageToDict(pb)
    IN  [text |-> detected_text(vision_results), labels |-> labels(vision_results)]

\* ======================================================== Summarizer Caller
\* response.choices[0] raises IndexError on an empty list
ExtractRaises(response) == response.choices = <<>>

\* lines 146-149: any exception on the way to the text leaves None
output_text(response) ==
    IF response.output = <<>> THEN None
    ELSE IF response.output[1].content = <<>> THEN None
    ELSE response.output[1].content[1].text

\* lines 139-152
summary_content(response) ==
    LET choice == response.choices[1]
    IN  IF hasattr(choice, "message") /\ Truthy(get(choice.message, "content", None))
            THEN choice.message.content
        ELSE IF hasattr(response, "output") THEN output_text(response)
        ELSE IF hasattr(choice, "text") THEN choice.text
        ELSE None

\* the emptiness check of lines 154-157 left out
SummaryOfUnchecked(outcome) ==
    IF outcome.kind = "raise" THEN ApiErrorMsg(outcome.msg)
    ELSE IF ExtractRaises(outcome.response) THEN ApiErrorMsg(IndexOutOfRange)
    ELSE LET content == summary_content(outcome.response)
         IN  IF content = None
                 THEN ApiErrorMsg("'NoneType' object has no attribute 'strip'")
                 ELSE strip(content)

\* lines 138-166, once the completion call has returned or raised
SummaryOf(outcome) ==
    IF outcome.kind = "raise" THEN ApiErrorMsg(outcome.msg)
    ELSE IF ExtractRaises(outcome.response) THEN ApiErrorMsg(IndexOutOfRange)
    ELSE LET content == summary_content(outcome.response)
         IN  IF ~Truthy(content) \/ ~Truthy(strip(content))
                 THEN CouldNotGenerateMsg
                 ELSE strip(content)

\* ====================================================== collaborator inputs
OpenAIKeys == {None, EmptyStr, <<"sk">>}

\* the sub-step of the inline path that raises, "unset" when the variable is
\* not configured, "ok" when every sub-step succeeds
InlineOutcomes == {"unset", "b64decode", "utf-8", "json.loads",
                   "from_service_account_info", "ImageAnnotatorClient", "ok"}

Uploads == {[kind |-> "raise", msg |-> "I/O operation on closed file"],
            [kind |-> "bytes", content |-> <<>>],
            [kind |-> "bytes", content |-> <<"jpeg">>]}

Raise(e) == [kind |-> "raise", msg |-> e]

OcrErrors == {"quota exceeded", "bad image data"}

TextEntity(s) == [description |-> s, score |-> 0]
TextAnnotationLists ==
    {<<>>} \cup {<<TextEntity(s), TextEntity(<<"b">>)>> :
                     s \in Strings({SP, "a"}, MaxStrLen)}

\* the i-th label the collaborator returns: pairwise distinct, scores
\* descending, every fourth at the default score and every third at the
\* default description
LabelDescriptions == <<<<"Food">>, <<"Packaging">>, EmptyStr>>
LabelEntity(i) ==
    [description |-> LabelDescriptions[((i - 1) % 3) + 1],
     score |-> IF i % 4 = 0 THEN 0 ELSE 1000 - 92 * i]
LabelAnnotations(n) == [i \in 1..n |-> LabelEntity(i)]

OcrResponse(texts, n) ==
    [kind |-> "response",
     pb |-> [textAnnotations |-> texts, labelAnnotations |-> LabelAnnotations(n)]]

OcrAll ==
    {Raise(e) : e \in OcrErrors}
        \cup {OcrResponse(t, n) : t \in TextAnnotationLists, n \in 0..MaxLabels}

OcrFew == {Raise("quota exceeded"), OcrResponse(<<TextEntity(<<"a">>)>>, 2)}

Messages ==
    {NoAttrs} \cup {[content |-> c] : c \in {None} \cup Strings({SP, "a"}, MaxStrLen)}
LegacyTexts == {None, EmptyStr, <<SP>>, <<"c">>}
Choices ==
    {NoAttrs} \cup {[message |-> m] : m \in Messages}
        \cup {[text |-> t] : t \in LegacyTexts}
        \cup {[message |-> m, text |-> t] : m \in Messages, t \in LegacyTexts}
Outputs ==
    {<<>>, <<[content |-> <<>>]>>}
        \cup {<<[content |-> <<[text |-> t]>>]>> : t \in {None, <<SP>>, <<"b", SP>>}}
Completions ==
    {[choices |-> <<>>]} \cup {[choices |-> <<c>>] : c \in Choices}
        \cup {[choices |-> <<c>>, output |-> o] : c \in Choices, o \in Outputs}

LlmAll ==
    {Raise(e) : e \in {"timeout", "rate limit"}}
        \cup {[kind |-> "response", response |-> c] : c \in Completions}

LlmFew ==
    {Raise("timeout"),
     [kind |-> "response", response |-> [choices |-> <<[message |-> [content |-> <<"a">>]]>>]]}

\* ==================================================================== state
VARIABLES
    boot,           \* "import", "openai_done", "serving", "crashed"
    api_key,        \* os.getenv("OPENAI_API_KEY")
    openai_client,  \* global handle: "None" or "client"
    vision_client,  \* global handle: "None" or "client"
    vision_init,    \* how initialize_vision_client ended: "returned", "raised"
    loop,           \* the request whose coroutine holds the event loop, 0 if none
    pc,             \* where each request is
    upload,         \* what image_file.read() gave
    ocr_in,         \* what annotate_image gave
    llm_in,         \* what chat.completions.create gave
    vision_results, \* the endpoint's local of that name
    response,       \* the HTTP response sent
    ocr_calls,      \* annotate_image calls issued
    llm_calls,      \* chat.completions.create calls issued
    responses       \* HTTP responses sent

vars == <<boot, api_key, openai_client, vision_client, vision_init, loop, pc, upload,
          ocr_in, llm_in, vision_results, response, ocr_calls, llm_calls, responses>>

handles == <<boot, api_key, openai_client, vision_client, vision_init>>

Nothing == [kind |-> "none"]
NoResponse == [status |-> 0]

Init ==
    /\ boot = "import"
    /\ api_key \in OpenAIKeys
    /\ openai_client = "None"
    /\ vision_client = "None"
    /\ vision_init = "pending"
    /\ loop = 0
    /\ pc = [r \in Requests |-> "idle"]
    /\ upload = [r \in Requests |-> Nothing]
    /\ ocr_in = [r \in Requests |-> Nothing]
    /\ llm_in = [r \in Requests |-> Nothing]
    /\ vision_results = [r \in Requests |-> NoAttrs]
    /\ response = [r \in Requests |-> NoResponse]
    /\ ocr_calls = [r \in Requests |-> 0]
    /\ llm_calls = [r \in Requests |-> 0]
    /\ responses = [r \in Requests |-> 0]

\* ================================================================== startup
\* lines 17-22; OpenAI() raises when no key is configured, and the handler
\* leaves the handle None
InitOpenAI ==
    /\ boot = "import"
    /\ \E ok \in BOOLEAN :
           /\ ok => api_key # None
           /\ openai_client' = IF ok THEN "client" ELSE "None"
    /\ boot' = "openai_done"
    /\ UNCHANGED <<api_key, vision_client, vision_init, loop, pc, upload, ocr_in, llm_in,
                   vision_results, response, ocr_calls, llm_calls, responses>>

\* lines 27-50: how the call at line 50 ends, given the outcome of the inline
\* path and whether ImageAnnotatorClient() finds ambient credentials
InitVisionResult(inline, ambient) ==
    IF inline = "ok" THEN "returned"
    ELSE IF ambient THEN "returned"
    ELSE "raised"

initialize_vision_client ==
    /\ boot = "openai_done"
    /\ \E inline \in InlineOutcomes, ambient \in BOOLEAN :
           LET end == InitVisionResult(inline, ambient)
           IN  /\ vision_init' = end
               /\ vision_client' = IF end = "raised" THEN "None" ELSE "client"
               \* the RuntimeError leaves the module unimported: nothing serves
               /\ boot' = IF end = "raised" THEN "crashed" ELSE "serving"
    /\ UNCHANGED <<api_key, openai_client, loop, pc, upload, ocr_in, llm_in,
                   vision_results, response, ocr_calls, llm_calls, responses>>

\* ================================================================= requests
OkResponse(summary, results) ==
    [status |-> 200, summary |-> summary,
     raw_text_detected |-> results.text, detected_labels |-> results.labels]

ErrorResponse(code, detail) == [status |-> code, detail |-> detail]

\* the read failure reported as a server error
ReadFailureAs500(e) == ErrorResponse(500, ReadFailedDetail(e))

\* line 78
ReadFailure(e) == ErrorResponse(400, ReadFailedDetail(e))

\* the OCR failure reported without the exception's message
VisionFailureGeneric(e) == ErrorResponse(500, <<"Cloud Vision API call failed.">>)

\* line 101
VisionFailure(e) == ErrorResponse(500, VisionFailedDetail(e))

\* the credential check left out
KeyCheckDropped == TRUE

\* line 106
KeyConfigured == Truthy(api_key)

\* the handler returns or raises: the response goes out, the locals die and
\* the coroutine gives up the event loop
Respond(r, resp) ==
    /\ pc' = [pc EXCEPT ![r] = "responded"]
    /\ response' = [response EXCEPT ![r] = resp]
    /\ responses' = [responses EXCEPT ![r] = @ + 1]
    /\ vision_results' = [vision_results EXCEPT ![r] = NoAttrs]
    /\ loop' = 0

\* a client posts an image
Submit(r) ==
    /\ boot = "serving"
    /\ pc[r] = "idle"
    /\ pc' = [pc EXCEPT ![r] = "received"]
    /\ UNCHANGED <<handles, loop, upload, ocr_in, llm_in, vision_results, response,
                   ocr_calls, llm_calls, responses>>

\* lines 171-176 up to the first await that yields: `await image_file.read()`
analyze_image_endpoint(r) ==
    /\ pc[r] = "received"
    /\ loop = 0
    /\ IF vision_client = "None"
           THEN /\ Respond(r, ErrorResponse(500, NotInitializedDetail))
                /\ UNCHANGED <<upload, ocr_calls>>
           ELSE /\ pc' = [pc EXCEPT ![r] = "reading"]
                /\ UNCHANGED <<loop, upload, vision_results, response, ocr_calls, responses>>
    /\ UNCHANGED <<handles, ocr_in, llm_in, llm_calls>>

\* lines 76-88: the read resumes the coroutine, which runs on into
\* annotate_image, a blocking call made on the event loop's thread
ReadReturns(r) ==
    /\ pc[r] = "reading"
    /\ loop = 0
    /\ \E u \in Uploads :
           /\ upload' = [upload EXCEPT ![r] = u]
           /\ IF u.kind = "raise"
                  THEN /\ Respond(r, ReadFailure(u.msg))
                       /\ UNCHANGED ocr_calls
                  ELSE /\ pc' = [pc EXCEPT ![r] = "ocr_inflight"]
                       /\ loop' = r
                       /\ ocr_calls' = [ocr_calls EXCEPT ![r] = @ + 1]
                       /\ UNCHANGED <<vision_results, response, responses>>
    /\ UNCHANGED <<handles, ocr_in, llm_in, llm_calls>>

\* lines 105-136 with the OCR results in hand: the two early returns, or the
\* blocking completion call
analyze_with_openai(r, results) ==
    IF ~KeyConfigured
        THEN /\ Respond(r, OkResponse(NotConfiguredMsg, results))
             /\ UNCHANGED llm_calls
    ELSE IF openai_client = "None"
        THEN /\ Respond(r, OkResponse(ApiErrorMsg(NoneTypeChat), results))
             /\ UNCHANGED llm_calls
    ELSE /\ pc' = [pc EXCEPT ![r] = "llm_inflight"]
         /\ vision_results' = [vision_results EXCEPT ![r] = results]
         /\ llm_calls' = [llm_calls EXCEPT ![r] = @ + 1]
         /\ UNCHANGED <<loop, response, responses>>

\* a failed annotate_image call issued a second time
OcrReturnsRetrying(r, outcomes) ==
    /\ pc[r] = "ocr_inflight"
    /\ \E o \in outcomes :
           /\ ocr_in' = [ocr_in EXCEPT ![r] = o]
           /\ IF o.kind = "raise" /\ ocr_calls[r] < 2
                  THEN /\ ocr_calls' = [ocr_calls EXCEPT ![r] = @ + 1]
                       /\ UNCHANGED <<loop, pc, vision_results, response, responses,
                                      llm_calls>>
              ELSE IF o.kind = "raise"
                  THEN /\ Respond(r, VisionFailure(o.msg))
                       /\ UNCHANGED <<llm_calls, ocr_calls>>
              ELSE /\ analyze_with_openai(r, Normalise(o.pb))
                   /\ UNCHANGED ocr_calls
    /\ UNCHANGED <<handles, upload, llm_in>>

\* lines 88-101 and 175-180: annotate_image returns or raises
OcrReturns(r, outcomes) ==
    /\ pc[r] = "ocr_inflight"
    /\ \E o \in outcomes :
           /\ ocr_in' = [ocr_in EXCEPT ![r] = o]
           /\ IF o.kind = "raise"
                  THEN /\ Respond(r, VisionFailure(o.msg))
                       /\ UNCHANGED llm_calls
              ELSE IF NormaliseRaises(MessageToDict(o.pb))
                  THEN /\ Respond(r, VisionFailure(IndexOutOfRange))
                       /\ UNCHANGED llm_calls
              ELSE analyze_with_openai(r, Normalise(o.pb))
    /\ UNCHANGED <<handles, upload, llm_in, ocr_calls>>

\* lines 136-166 and 182-186: chat.completions.create returns or raises
LlmReturns(r, outcomes) ==
    /\ pc[r] = "llm_inflight"
    /\ \E o \in outcomes :
           /\ llm_in' = [llm_in EXCEPT ![r] = o]
           /\ Respond(r, OkResponse(SummaryOf(o), vision_results[r]))
    /\ UNCHANGED <<handles, upload, ocr_in, ocr_calls, llm_calls>>

\* ============================================================ specifications
\* Request 1 draws from the whole alphabet of a collaborator; the requests
\* beside it, which supply the interleavings, from a few outcomes.
OcrWide(r) == IF r = 1 THEN OcrAll ELSE OcrFew
OcrNarrow(r) == OcrFew
LlmWide(r) == IF r = 1 THEN LlmAll ELSE LlmFew
LlmNarrow(r) == LlmFew

Startup == InitOpenAI \/ initialize_vision_client

Serve(r, Ocr(_), Llm(_)) ==
    \/ Submit(r)
    \/ analyze_image_endpoint(r)
    \/ ReadReturns(r)
    \/ OcrReturns(r, Ocr(r))
    \/ LlmReturns(r, Llm(r))

\* every OCR outcome
Next == Startup \/ \E r \in Requests : Serve(r, OcrWide, LlmNarrow)
Spec == Init /\ [][Next]_vars

\* every completion outcome
NextLlm == Startup \/ \E r \in Requests : Serve(r, OcrNarrow, LlmWide)
SpecLlm == Init /\ [][NextLlm]_vars

\* scheduling: the event loop resumes a runnable coroutine, and each issued
\* external call returns or raises
NextFair == Startup \/ \E r \in Requests : Serve(r, OcrNarrow, LlmNarrow)
Fairness ==
    /\ WF_vars(Startup)
    /\ \A r \in Requests :
           /\ WF_vars(analyze_image_endpoint(r))
           /\ WF_vars(ReadReturns(r))
           /\ WF_vars(OcrReturns(r, OcrNarrow(r)))
           /\ WF_vars(LlmReturns(r, LlmNarrow(r)))
SpecFair == Init /\ [][NextFair]_vars /\ Fairness

\* =================================================================== claims
Responded(r) == pc[r] = "responded"
InFlight(r) == pc[r] \in {"ocr_inflight", "llm_inflight"}
BodyFields == {"summary", "raw_text_detected", "detected_labels"}
Contains(detail, e) == \E i \in DOMAIN detail : detail[i] = e
\* empty or whitespace only
Blank(s) == \A i \in 1..Len(s) : s[i] = SP

\* the OCR step of request r ended in an exception, and its message
OcrRaised(r) ==
    \/ ocr_in[r].kind = "raise"
    \/ ocr_in[r].kind = "response" /\ NormaliseRaises(MessageToDict(ocr_in[r].pb))
OcrMessage(r) == IF ocr_in[r].kind = "raise" THEN ocr_in[r].msg ELSE IndexOutOfRange
OcrSucceeded(r) == ocr_in[r].kind = "response" /\ ~OcrRaised(r)

\* C1: a request whose OCR call (or the normalisation of its result) raised
\* is answered 500 with the exception's message in detail, with none of the
\* fields summary, raw_text_detected, detected_labels, and without any
\* completion call.
C1_OcrFailureIs500 ==
    \A r \in Requests :
        OcrRaised(r) =>
            /\ Responded(r)
            /\ response[r].status = 500
            /\ Contains(response[r].detail, OcrMessage(r))
            /\ DOMAIN response[r] \cap BodyFields = {}
            /\ llm_calls[r] = 0
            /\ llm_in[r] = Nothing

C1_Witness ==
    \E r \in Requests : ocr_in[r].kind = "raise" /\ Responded(r) /\ ocr_calls[r] = 1

\* C2: once the OCR step has succeeded, whatever the completion step does,
\* the request is answered 200 with a non-empty summary string and with the
\* OCR step's text and labels.
C2_SummaryNeverFails ==
    \A r \in Requests :
        Responded(r) /\ OcrSucceeded(r) =>
            /\ response[r].status = 200
            /\ response[r].summary # None
            /\ Len(response[r].summary) > 0
            /\ response[r].raw_text_detected = Normalise(ocr_in[r].pb).text
            /\ response[r].detected_labels = Normalise(ocr_in[r].pb).labels

C2_Witness ==
    \E r \in Requests :
        /\ Responded(r) /\ OcrSucceeded(r) /\ response[r].status = 200
        /\ llm_in[r].kind = "response"
        /\ ~ExtractRaises(llm_in[r].response)
        /\ summary_content(llm_in[r].response) = None

\* C3: with OPENAI_API_KEY absent the OCR call is still issued for every
\* upload that was read, no completion call is issued, and a request whose
\* OCR step succeeded is answered 200 with the "not configured" diagnostic
\* and the OCR results.
C3_KeyAbsent ==
    api_key \in {None, EmptyStr} =>
        \A r \in Requests :
            /\ llm_calls[r] = 0
            /\ upload[r].kind = "bytes" => ocr_calls[r] = 1
            /\ OcrSucceeded(r) =>
                   /\ Responded(r)
                   /\ response[r] = OkResponse(NotConfiguredMsg, Normalise(ocr_in[r].pb))

C3_Witness ==
    /\ api_key = None
    /\ \E r \in Requests : OcrSucceeded(r) /\ Responded(r) /\ ocr_calls[r] = 1

\* C4: initialize_vision_client never raises: whatever the inline path and
\* ambient discovery do, it returns, with the handle present or absent.
C4_ResolverNeverRaises == vision_init # "raised"

\* C5: a successful response never has an empty raw_text_detected; when the
\* collaborator returns no text annotation, or a first annotation whose
\* description is blank, the request succeeds with the sentinel.
C5_TextNeverEmpty ==
    \A r \in Requests :
        /\ response[r].status = 200 =>
               /\ response[r].raw_text_detected # None
               /\ response[r].raw_text_detected # EmptyStr
        /\ ( /\ Responded(r)
             /\ ocr_in[r].kind = "response"
             /\ \/ ocr_in[r].pb.textAnnotations = <<>>
                \/ Blank(ocr_in[r].pb.textAnnotations[1].description) )
           => /\ response[r].status = 200
              /\ response[r].raw_text_detected = NoTextDetected

C5_Witness ==
    \E r \in Requests :
        /\ response[r].status = 200
        /\ ocr_in[r].pb.textAnnotations # <<>>
        /\ ocr_in[r].pb.textAnnotations[1].description = <<SP, SP>>
        /\ response[r].raw_text_detected = NoTextDetected

\* C6: detected_labels of a successful response has at most 5 entries, the
\* first min(5, n) of the collaborator's n label annotations, in its order.
C6_LabelsFirstFive ==
    \A r \in Requests :
        response[r].status = 200 =>
            LET anns == ocr_in[r].pb.labelAnnotations
                out == response[r].detected_labels
            IN  /\ Len(out) <= 5
                /\ Len(out) = IF Len(anns) < 5 THEN Len(anns) ELSE 5
                /\ \A i \in 1..Len(out) :
                       /\ out[i][1] = IF anns[i].description = EmptyStr
                                          THEN None ELSE anns[i].description
                       /\ out[i][3] = round(anns[i].score)

C6_Witness ==
    \E r \in Requests :
        /\ response[r].status = 200
        /\ Len(ocr_in[r].pb.labelAnnotations) > 5
        /\ Len(response[r].detected_labels) = 5

\* the three places a completion's text is looked for, in priority order;
\* None where the place does not exist
ContentLocation(resp) ==
    IF hasattr(resp.choices[1], "message")
        THEN get(resp.choices[1].message, "content", None) ELSE None
OutputLocation(resp) == IF hasattr(resp, "output") THEN output_text(resp) ELSE None
TextLocation(resp) == get(resp.choices[1], "text", None)
HasText(x) == x # None /\ ~Blank(x)
FirstText(resp) ==
    IF HasText(ContentLocation(resp)) THEN ContentLocation(resp)
    ELSE IF HasText(OutputLocation(resp)) THEN OutputLocation(resp)
    ELSE TextLocation(resp)

\* C7: when the completion call returns, summary is the stripped text of the
\* first of message content, response.output, choices[0].text that holds
\* non-blank text, and the "could not generate" diagnostic only if none does.
C7_FirstNonBlankLocation ==
    \A r \in Requests :
        (Responded(r) /\ llm_in[r].kind = "response" /\ ~ExtractRaises(llm_in[r].response)) =>
            LET first == FirstText(llm_in[r].response)
            IN  IF HasText(first)
                    THEN response[r].summary = strip(first)
                    ELSE response[r].summary = CouldNotGenerateMsg

\* C8 as stated: an empty or unreadable upload is answered 400 and reaches
\* neither collaborator.
C8_EmptyOrUnreadableIs400 ==
    \A r \in Requests :
        (upload[r].kind = "raise" \/ (upload[r].kind = "bytes" /\ upload[r].content = <<>>)) =>
            /\ Responded(r) => response[r].status = 400
            /\ ocr_calls[r] = 0
            /\ llm_calls[r] = 0

\* C8 amended: an upload whose read raises is answered 400 with the read
\* failure in detail and reaches neither collaborator; an empty upload that
\* reads without error goes to the OCR collaborator and is never answered 400.
C8_UnreadableIs400 ==
    \A r \in Requests :
        /\ upload[r].kind = "raise" =>
               /\ Responded(r)
               /\ response[r].status = 400
               /\ response[r].detail[1] = "Could not read uploaded image: "
               /\ Contains(response[r].detail, upload[r].msg)
               /\ ocr_calls[r] = 0
               /\ llm_calls[r] = 0
        /\ upload[r].kind = "bytes" =>
               /\ ocr_calls[r] = 1
               /\ response[r].status # 400

C8_Witness ==
    \E r \in Requests, q \in Requests :
        /\ upload[r].kind = "raise" /\ Responded(r)
        /\ upload[q].kind = "bytes" /\ upload[q].content = <<>> /\ Responded(q)

PcOrder ==
    {<<"idle", "received">>, <<"received", "reading">>, <<"reading", "ocr_inflight">>,
     <<"reading", "responded">>, <<"ocr_inflight", "llm_inflight">>,
     <<"ocr_inflight", "responded">>, <<"llm_inflight", "responded">>}

\* C9: a request moves only forward through received, OCR in flight,
\* completion in flight, responded; the completion call follows a successful
\* return of its own OCR call; at most one call of each kind and one response
\* per request; and every received request is eventually answered.
C9_RequestOrder ==
    /\ [](\A r \in Requests :
              /\ ocr_calls[r] <= 1 /\ llm_calls[r] <= 1 /\ responses[r] <= 1
              /\ llm_calls[r] = 1 => ocr_calls[r] = 1 /\ OcrSucceeded(r)
              /\ pc[r] = "ocr_inflight" => ocr_calls[r] = 1 /\ llm_calls[r] = 0
              /\ pc[r] = "llm_inflight" => llm_calls[r] = 1
              /\ Responded(r) <=> responses[r] = 1)
    /\ [][\A r \in Requests : pc[r] # pc'[r] => <<pc[r], pc'[r]>> \in PcOrder]_vars
    /\ \A r \in Requests : (pc[r] = "received") ~> [](responses[r] = 1)

C9_Witness ==
    \E r \in Requests :
        Responded(r) /\ ocr_calls[r] = 1 /\ llm_calls[r] = 1 /\ llm_in[r].kind = "response"

\* C10: an external call is a suspension point: while one request's OCR or
\* completion call is in flight, the event loop can start the handler of
\* another request that has been received.
C10_CallsSuspend ==
    \A r \in Requests, q \in Requests :
        (r # q /\ InFlight(r) /\ pc[q] = "received") => ENABLED analyze_image_endpoint(q)

====
